---- MODULE Spec2Model ----
(***************************************************************************)
(* A model of ceiba/ceiba.py (class Ceiba): login, course-list discovery,  *)
(* homepage mirroring and the download loop.  Python strings are modelled  *)
(* as sequences of characters, an Optional[str] as a record [some, v].     *)
(***************************************************************************)
EXTENDS Integers, Sequences, FiniteSets, TLC

VARIABLES
    cookies,         \* self.sess.cookies: a set of <<name, domain, value>>
    student_name,    \* self.student_name
    email,           \* self.email
    id,              \* self.id (an Optional: the attribute exists only after a parse)
    is_login,        \* self.is_login
    courses,         \* self.courses
    course_dir_map,  \* self.course_dir_map
    self_path,       \* self.path (an Optional: set by the download operations)
    page,            \* the data rows of the first table of the portal's courses page
    dirs,            \* the directories that exist under the destination root
    index,           \* <path>/index.html: [written, rows, others, options]
    pc,              \* position of the running download_courses call, "idle" if none
    call,            \* the running / last call: operation, arguments, loop position, result
    trace,           \* the observable events of the running / last call, in order
    fetches          \* how many times get_courses_list has run on this instance

vars == <<cookies, student_name, email, id, is_login, courses, course_dir_map,
          self_path, page, dirs, index, pc, call, trace, fetches>>

-----------------------------------------------------------------------------
(* Bounds of the model *)

MaxRows == 2
MaxFetches == 2

-----------------------------------------------------------------------------
(* Python values *)

None == [some |-> FALSE, v |-> <<>>]
Str(s) == [some |-> TRUE, v |-> s]

\* Python truthiness of an Optional[str]: None and "" are falsy.
Truthy(o) == o.some /\ Len(o.v) > 0

NBSP == "nbsp"
Whitespace == {" ", NBSP}

RECURSIVE LStrip(_)
LStrip(s) == IF s = <<>> THEN s
             ELSE IF Head(s) \in Whitespace THEN LStrip(Tail(s)) ELSE s

RECURSIVE RStrip(_)
RStrip(s) == IF s = <<>> THEN s
             ELSE IF s[Len(s)] \in Whitespace THEN RStrip(SubSeq(s, 1, Len(s) - 1)) ELSE s

\* str.strip(): NBSP is whitespace for Python.
Strip(s) == RStrip(LStrip(s))

\* str.split(sep) for a one-character separator: a sequence of strings.
RECURSIVE Split(_, _)
Split(s, sep) ==
    IF s = <<>> THEN << <<>> >>
    ELSE IF Head(s) = sep THEN << <<>> >> \o Split(Tail(s), sep)
    ELSE LET r == Split(Tail(s), sep)
         IN  << <<Head(s)>> \o Head(r) >> \o Tail(r)

\* x in s, for a one-token marker x.
Contains(s, x) == \E i \in 1..Len(s) : s[i] = x

-----------------------------------------------------------------------------
(* Session / login (ceiba.py 40-76) *)

login_url == "login_url"
info_url == "info_url"
courses_url == "courses_url"

\* The two markers of line 45 (the "login failed" and the "change password"
\* prompts).
FailureMarkersLoginFailedOnly == {"LoginFailed"}

FailureMarkers == {"LoginFailed", "ChangePassword"}

\* Events of a call, all of one shape: a request (GET, POST, css, download)
\* with its URL and form data, the response to it with its final URL and
\* body, a progress notification (emit), a mkdir with what it did, the write
\* of index.html.  n is the position in self.courses, where there is one.
Ev(kind, arg, data) == [kind |-> kind, arg |-> arg, data |-> data, n |-> 0]
EvN(kind, arg, data, n) == [kind |-> kind, arg |-> arg, data |-> data, n |-> n]
NoData == <<>>
RequestKinds == {"GET", "POST", "css", "download"}

\* The inputs of login().
OptStrings == {None, Str(<<>>), Str(<<"s">>)}
Tokens == {None, Str(<<>>), Str(<<"t">>)}

\* What the portal answers during one login: the final URL of the GET of the
\* login page, the final URL and the body of the first POST, the account page.
RedirectUrls == {"sso_url", "chk_url"}
PostBodies == {<<"Welcome">>, <<"x", "LoginFailed">>, <<"ChangePassword", "x">>}

InfoRow(hasTd, text) == [hasTd |-> hasTd, text |-> text]
GoodInfo == << InfoRow(TRUE, <<"N">>), InfoRow(FALSE, <<>>), InfoRow(FALSE, <<>>),
               InfoRow(FALSE, <<>>), InfoRow(FALSE, <<>>),
               InfoRow(TRUE, <<"u", "@", "d">>) >>
InfoPages == { GoodInfo,
               <<>>,
               << InfoRow(TRUE, <<"N">>) >>,
               [GoodInfo EXCEPT ![1] = InfoRow(FALSE, <<>>)],
               [GoodInfo EXCEPT ![6] = InfoRow(FALSE, <<>>)],
               [GoodInfo EXCEPT ![6] = InfoRow(TRUE, <<"u">>)] }

\* login_user (lines 40-47): the events it produces and whether it raises.
\* Each POST goes to the final URL of the response before it.
login_userSameUrl(username, password, getUrl, post1Url, post1Body) ==
    LET payload == <<username.v, password.v>>
        first == << Ev("GET", login_url, NoData),
                    Ev("response", getUrl, NoData),
                    Ev("POST", getUrl, payload),
                    Ev("response", post1Url, <<post1Body>>) >>
    IN  IF \E x \in FailureMarkers : Contains(post1Body, x)
        THEN [raised |-> "InvalidCredentials", events |-> first]
        ELSE [raised |-> "no",
              events |-> Append(first, Ev("POST", getUrl, payload))]

login_user(username, password, getUrl, post1Url, post1Body) ==
    LET payload == <<username.v, password.v>>
        first == << Ev("GET", login_url, NoData),
                    Ev("response", getUrl, NoData),
                    Ev("POST", getUrl, payload),
                    Ev("response", post1Url, <<post1Body>>) >>
    IN  IF \E x \in FailureMarkers : Contains(post1Body, x)
        THEN [raised |-> "InvalidCredentials", events |-> first]
        ELSE [raised |-> "no",
              events |-> Append(first, Ev("POST", post1Url, payload))]

\* The identity parse of login (lines 68-75): trs[0] / trs[5] raise IndexError,
\* find('td') returning None raises AttributeError; an assignment that was
\* made before the raise stays.
ParseInfoResets(info, old) ==
    IF Len(info) < 1 \/ ~info[1].hasTd
    THEN [raised |-> "InvalidCredentials", student_name |-> old.student_name,
          email |-> old.email, id |-> old.id, is_login |-> FALSE]
    ELSE IF Len(info) < 6 \/ ~info[6].hasTd
    THEN [raised |-> "InvalidCredentials", student_name |-> info[1].text,
          email |-> old.email, id |-> old.id, is_login |-> FALSE]
    ELSE [raised |-> "no", student_name |-> info[1].text,
          email |-> info[6].text,
          id |-> Str(Head(Split(info[6].text, "@"))),
          is_login |-> TRUE]

ParseInfoIndexErrorOnly(info, old) ==
    IF Len(info) < 1 \/ ~info[1].hasTd
    THEN [raised |-> IF Len(info) < 1 THEN "InvalidCredentials" ELSE "AttributeError",
          student_name |-> old.student_name,
          email |-> old.email, id |-> old.id, is_login |-> old.is_login]
    ELSE IF Len(info) < 6 \/ ~info[6].hasTd
    THEN [raised |-> IF Len(info) < 6 THEN "InvalidCredentials" ELSE "AttributeError",
          student_name |-> info[1].text,
          email |-> old.email, id |-> old.id, is_login |-> old.is_login]
    ELSE [raised |-> "no", student_name |-> info[1].text,
          email |-> info[6].text,
          id |-> Str(Head(Split(info[6].text, "@"))),
          is_login |-> TRUE]

ParseInfo(info, old) ==
    IF Len(info) < 1 \/ ~info[1].hasTd
    THEN [raised |-> "InvalidCredentials", student_name |-> old.student_name,
          email |-> old.email, id |-> old.id, is_login |-> old.is_login]
    ELSE IF Len(info) < 6 \/ ~info[6].hasTd
    THEN [raised |-> "InvalidCredentials", student_name |-> info[1].text,
          email |-> old.email, id |-> old.id, is_login |-> old.is_login]
    ELSE [raised |-> "no", student_name |-> info[1].text,
          email |-> info[6].text,
          id |-> Str(Head(Split(info[6].text, "@"))),
          is_login |-> TRUE]

\* sess.cookies.set(name, value): a cookie with no domain, replacing the one
\* of the same name and domain.
CookiesSet(jar, name, value) ==
    {c \in jar : ~(c[1] = name /\ c[2] = "")} \cup {<<name, "", value>>}

\* The call record: one shape for every operation.
NoFilter == [some |-> FALSE, ids |-> {}]
NoPath == [isStr |-> TRUE, s |-> <<>>]
IdleCall == [op |-> "none", cookie |-> None, username |-> None, password |-> None,
             progress |-> FALSE, path |-> NoPath, filter |-> NoFilter,
             info |-> <<>>, i |-> 0, result |-> "none"]

\* The branch of lines 55-62 on the arguments.
LoginBranchFormFirst(cookie_PHPSESSID, username, password) ==
    IF Truthy(username) /\ Truthy(password) THEN "form"
    ELSE IF Truthy(cookie_PHPSESSID) THEN "token"
    ELSE "invalid"

LoginBranchEither(cookie_PHPSESSID, username, password) ==
    IF Truthy(cookie_PHPSESSID) THEN "token"
    ELSE IF Truthy(username) \/ Truthy(password) THEN "form"
    ELSE "invalid"

LoginBranch(cookie_PHPSESSID, username, password) ==
    IF Truthy(cookie_PHPSESSID) THEN "token"
    ELSE IF Truthy(username) /\ Truthy(password) THEN "form"
    ELSE "invalid"

\* Lines 66-67: the notification after the GET of the account page; it is
\* before the try of line 68, whatever the parse does.
SecondEmitAfterParse(progress, parsedOk) ==
    IF progress /\ parsedOk THEN << Ev("emit", "", NoData) >> ELSE <<>>

SecondEmit(progress, parsedOk) ==
    IF progress THEN << Ev("emit", "", NoData) >> ELSE <<>>

\* login (lines 49-76) as one step: the branch on the arguments, the requests,
\* the progress notifications and the identity parse.
login(cookie_PHPSESSID, username, password, progress, getUrl, post1Url, post1Body, srvCookie, info) ==
    LET c0 == [IdleCall EXCEPT !.op = "login", !.cookie = cookie_PHPSESSID,
                               !.username = username, !.password = password,
                               !.progress = progress]
        emit == IF progress THEN << Ev("emit", "", NoData) >> ELSE <<>>
        old == [student_name |-> student_name, email |-> email, id |-> id,
                is_login |-> is_login]
        branch == LoginBranch(cookie_PHPSESSID, username, password)
        lu == login_user(username, password, getUrl, post1Url, post1Body)
        \* the jar after the first branch (the portal may set its own session
        \* cookie while the form is submitted), and the events of that branch
        jar1 == IF branch = "token"
                THEN CookiesSet(cookies, "PHPSESSID", cookie_PHPSESSID.v)
                ELSE IF srvCookie THEN cookies \cup {<<"PHPSESSID", "ceiba", <<"srv">>>>}
                ELSE cookies
        ev1 == IF branch = "token" THEN <<>>
               ELSE IF lu.raised = "no" THEN lu.events \o emit ELSE lu.events
        parsed == ParseInfo(info, old)
    IN
    IF branch = "invalid"
    THEN /\ call' = [c0 EXCEPT !.result = "InvalidLoginParameters"]
         /\ trace' = <<>>
         /\ UNCHANGED <<cookies, student_name, email, id, is_login>>
    ELSE IF branch = "form" /\ lu.raised # "no"
    THEN /\ call' = [c0 EXCEPT !.result = lu.raised]
         /\ trace' = ev1
         /\ cookies' = jar1
         /\ UNCHANGED <<student_name, email, id, is_login>>
    ELSE /\ call' = [c0 EXCEPT !.info = info,
                               !.result = IF parsed.raised = "no" THEN "ok" ELSE parsed.raised]
         /\ trace' = ev1 \o << Ev("GET", info_url, NoData),
                                Ev("response", info_url, NoData) >>
                        \o SecondEmit(progress, parsed.raised = "no")
         /\ cookies' = jar1
         /\ student_name' = parsed.student_name
         /\ email' = parsed.email
         /\ id' = parsed.id
         /\ is_login' = parsed.is_login

Login ==
    /\ pc = "idle"
    /\ \E cookie_PHPSESSID \in Tokens, username \in OptStrings, password \in OptStrings,
          progress \in BOOLEAN :
       LET form == LoginBranch(cookie_PHPSESSID, username, password) = "form"
           fetch == LoginBranch(cookie_PHPSESSID, username, password) # "invalid"
       IN
       \E getUrl \in (IF form THEN RedirectUrls ELSE {"sso_url"}),
          post1Url \in (IF form THEN RedirectUrls ELSE {"sso_url"}),
          post1Body \in (IF form THEN PostBodies ELSE {<<"Welcome">>}),
          srvCookie \in (IF form THEN BOOLEAN ELSE {FALSE}),
          info \in (IF fetch THEN InfoPages ELSE {GoodInfo}) :
            login(cookie_PHPSESSID, username, password, progress,
                  getUrl, post1Url, post1Body, srvCookie, info)
    /\ UNCHANGED <<courses, course_dir_map, self_path, page, dirs, index, pc, fetches>>

-----------------------------------------------------------------------------
(* The courses page and the catalog (ceiba.py 78-105) *)

\* The cells of a data row that the code reads: column 0, column 2, and in
\* column 4 the text of the anchor (a) and the text that follows the anchor
\* in the cell (tail).  The English name is after the anchor or inside it.
Semesters == {<<"1">>, <<"1", "2">>}
CourseNums == {<<"3">>, <<"2", "3">>}
NameCells == { [a |-> <<"M">>, tail |-> <<NBSP, "E">>],
               [a |-> <<"X">>, tail |-> <<>>],
               [a |-> <<"X", NBSP, "E">>, tail |-> <<>>] }
IdCells == {p \in Semesters \X CourseNums : Len(p[1]) + Len(p[2]) <= 3}
Rows == { [semester |-> p[1], course_num |-> p[2], name |-> c.a, tail |-> c.tail] :
            p \in IdCells, c \in NameCells }

\* ele.text of column 4: the anchor's text and what follows it.
CellText(row) == row.name \o row.tail

RECURSIVE SeqsUpTo(_, _)
SeqsUpTo(S, n) ==
    IF n = 0 THEN {<<>>}
    ELSE LET shorter == SeqsUpTo(S, n - 1)
         IN  shorter \cup {Append(q, x) : q \in {r \in shorter : Len(r) = n - 1}, x \in S}

Pages == SeqsUpTo(Rows, MaxRows)

\* util.skip_courses_list: the exclusion set of Chinese names.
skip_courses_list == {<<"X">>}

\* Course.id and Course.folder_name (course.py).
CourseId(c) == c.semester \o c.course_num
FolderName(c) == c.semester \o <<"_">> \o c.cname

\* The body of the loop of get_courses_list for one row (lines 88-101):
\* the Course it builds, and whether the row is skipped (line 93).
RowCname(row) == Strip(Head(Split(Strip(CellText(row)), NBSP)))
RowSkippedWholeCell(row) == Strip(CellText(row)) \in skip_courses_list
RowSkipped(row) == RowCname(row) \in skip_courses_list
RowCourse(row) ==
    LET name == Split(Strip(CellText(row)), NBSP)
    IN  [semester |-> Strip(row.semester),
         course_num |-> Strip(row.course_num),
         cname |-> Strip(name[1]),
         ename |-> IF Len(name) > 1 THEN name[2] ELSE <<>>]

\* self.course_dir_map[k] = v on a map kept as a function.
MapSet(m, k, v) == [x \in DOMAIN m \cup {k} |-> IF x = k THEN v ELSE m[x]]

\* The loop of get_courses_list (lines 87-103) over the rows, from the
\* current list and map.
RECURSIVE AppendCourses(_, _, _)
AppendCourses(rows, cs, m) ==
    IF rows = <<>> THEN [courses |-> cs, course_dir_map |-> m]
    ELSE IF RowSkipped(Head(rows)) THEN AppendCourses(Tail(rows), cs, m)
    ELSE LET course == RowCourse(Head(rows))
         IN  AppendCourses(Tail(rows), Append(cs, course),
                           MapSet(m, CourseId(course), FolderName(course)))

\* get_courses_list as one step; the GET may raise (transport error).
GetCoursesList ==
    /\ pc = "idle"
    /\ fetches < MaxFetches
    /\ \E netOk \in BOOLEAN :
        LET r == AppendCourses(page, courses, course_dir_map)
        IN  /\ call' = [IdleCall EXCEPT !.op = "get_courses_list",
                                        !.result = IF netOk THEN "ok" ELSE "TransportError"]
            /\ trace' = << Ev("GET", courses_url, NoData) >>
            /\ courses' = IF netOk THEN r.courses ELSE courses
            /\ course_dir_map' = IF netOk THEN r.course_dir_map ELSE course_dir_map
            /\ fetches' = IF netOk THEN fetches + 1 ELSE fetches
    /\ UNCHANGED <<cookies, student_name, email, id, is_login, self_path, page,
                   dirs, index, pc>>

-----------------------------------------------------------------------------
(* The destination directory and the homepage (ceiba.py 140-185) *)

\* The path argument: a str (isStr) and its text; the destination tree
\* modelled is the one of the non-empty path.
Paths == { [isStr |-> TRUE, s |-> <<>>],
           [isStr |-> TRUE, s |-> <<"o">>] }

\* type(path) == str and len(path) == 0 (lines 117, 147)
EmptyStrPathUnchecked(path) == FALSE

EmptyStrPath(path) == path.isStr /\ Len(path.s) = 0

\* What Path.mkdir(exist_ok=True) can do: nothing when the directory is
\* there, else create it or raise an OSError.
MkdirOutcomes(exists) ==
    IF exists THEN {"ok"}
    ELSE {"ok", "FileNotFoundError", "PermissionError"}

\* The try/except around the creation of the destination (lines 116-121 and
\* 146-151): only FileNotFoundError becomes InvalidFilePath.
CreateDestination(path, mk) ==
    IF EmptyStrPath(path) THEN "InvalidFilePath"
    ELSE IF mk = "FileNotFoundError" THEN "InvalidFilePath"
    ELSE mk

\* The course_id_filter argument: None or a collection of ids.
FilterIds == {<<"1", "3">>, <<"1", "2", "3">>}
Filters == {NoFilter} \cup {[some |-> TRUE, ids |-> S] : S \in SUBSET FilterIds}

\* The test of lines 167-169 on one row: the anchor is unwrapped and the row
\* muted.  course.text is the text of the anchor as it stands in the page.
HomeRowId(row) == Strip(row.semester) \o Strip(row.course_num)
HomeRowMutedNoFilter(row, filter) == row.name \in skip_courses_list

HomeRowMuted(row, filter) ==
    \/ row.name \in skip_courses_list
    \/ filter.some /\ HomeRowId(row) \notin filter.ids

\* One row of the rewritten table (lines 162-174): its cells, whether its
\* anchor is still an anchor and with which href, and whether it is muted.
HomeRow(row, filter, m) ==
    IF HomeRowMuted(row, filter)
    THEN [cells |-> row, active |-> FALSE, href |-> <<>>, muted |-> TRUE]
    ELSE [cells |-> row, active |-> TRUE,
          href |-> <<"courses/">> \o m[HomeRowId(row)] \o <<"/index.html">>,
          muted |-> FALSE]

\* Line 173 raises KeyError on a row that is kept and whose id is not a key.
HomeKeyError(rows, filter, m) ==
    \E k \in 1..Len(rows) :
        ~HomeRowMuted(rows[k], filter) /\ HomeRowId(rows[k]) \notin DOMAIN m

\* The anchors of the courses page that are not the name anchor of a data
\* row (navigation, other columns, the second table), as href and text, and
\* its option elements.  The second anchor has the text of a course anchor
\* and, as every anchor of the portal, an href of the portal.
OtherAnchors ==
    << [href |-> <<"p">>, text |-> <<"N">>],
       [href |-> <<"p">>, text |-> <<"M">>] >>
PageOptions == << <<"s">> >>

\* valid_a_tag after the loop (line 174): the rewritten anchors.  A set of
\* bs4 Tags holds its elements by name, attributes and contents.
ValidATags(rows, filter, m) ==
    { [href |-> HomeRow(rows[k], filter, m).href, text |-> rows[k].name] :
        k \in {j \in 1..Len(rows) : ~HomeRowMuted(rows[j], filter)} }

\* Lines 176-178: the other anchors that are left as anchors.
OtherActive(rows, filter, m) ==
    SelectSeq(OtherAnchors, LAMBDA a : a \in ValidATags(rows, filter, m))

\* Lines 180-181: the option elements that are left.
OptionsLeft(options) == SelectSeq(options, LAMBDA o : FALSE)

\* index.html is opened at line 183 only, after the row loop: a call that
\* raises before it leaves the file as it was.
IndexUnwrittenTruncated(old) ==
    [written |-> TRUE, rows |-> <<>>, others |-> <<>>, options |-> <<>>]

IndexUnwritten(old) == old

\* download_ceiba_homepage: its result, its events, and the directory tree
\* and index.html it leaves.  mk is what mkdir does, net what the portal does
\* ("ok", "get" when the GET raises, "css" when the Crawler raises).
NetOutcomes == {"ok", "get", "css"}
download_ceiba_homepage(path, filter, mk, net) ==
    LET made == CreateDestination(path, mk)
        mkdir == IF EmptyStrPath(path) THEN <<>> ELSE << Ev("mkdir_dest", mk, NoData) >>
        get == << Ev("GET", courses_url, NoData) >>
        css == << Ev("css", "", NoData) >>
    IN  IF made # "ok"
        THEN [result |-> made, events |-> mkdir, dirs |-> dirs, index |-> index]
        ELSE LET d == [dirs EXCEPT !.root = TRUE]
             IN  IF net = "get"
                 THEN [result |-> "TransportError", events |-> mkdir \o get,
                       dirs |-> d, index |-> IndexUnwritten(index)]
                 ELSE IF net = "css"
                 THEN [result |-> "CrawlerError", events |-> mkdir \o get \o css,
                       dirs |-> d, index |-> IndexUnwritten(index)]
                 ELSE IF HomeKeyError(page, filter, course_dir_map)
                 THEN [result |-> "KeyError", events |-> mkdir \o get \o css,
                       dirs |-> d, index |-> IndexUnwritten(index)]
                 ELSE [result |-> "ok",
                       events |-> mkdir \o get \o css \o << Ev("write_index", "", NoData) >>,
                       dirs |-> d,
                       index |-> [written |-> TRUE,
                                  rows |-> [k \in 1..Len(page) |->
                                             HomeRow(page[k], filter, course_dir_map)],
                                  others |-> OtherActive(page, filter, course_dir_map),
                                  options |-> OptionsLeft(PageOptions)]]

DownloadCeibaHomepage ==
    /\ pc = "idle"
    /\ \E path \in Paths, filter \in Filters :
       \E mk \in (IF EmptyStrPath(path) THEN {"ok"} ELSE MkdirOutcomes(dirs.root)) :
       \E net \in (IF CreateDestination(path, mk) = "ok" THEN NetOutcomes ELSE {"ok"}) :
        LET r == download_ceiba_homepage(path, filter, mk, net)
        IN  /\ call' = [IdleCall EXCEPT !.op = "download_ceiba_homepage", !.path = path,
                                        !.filter = filter, !.result = r.result]
            /\ self_path' = Str(path.s)
            /\ trace' = r.events
            /\ dirs' = r.dirs
            /\ index' = r.index
    /\ UNCHANGED <<cookies, student_name, email, id, is_login, courses,
                   course_dir_map, page, pc, fetches>>

-----------------------------------------------------------------------------
(* download_courses (ceiba.py 107-138), one step per statement group *)

\* Lines 113-121: self.path, self.courses_dir, creation of <path>/courses.
DCValidate ==
    /\ pc = "idle"
    /\ \E path \in Paths, filter \in Filters :
       \E mk \in (IF EmptyStrPath(path) THEN {"ok"} ELSE MkdirOutcomes(dirs.courses)) :
        LET made == CreateDestination(path, mk)
            c0 == [IdleCall EXCEPT !.op = "download_courses", !.path = path,
                                   !.filter = filter]
        IN  /\ self_path' = Str(path.s)
            /\ trace' = IF EmptyStrPath(path) THEN <<>>
                        ELSE << Ev("mkdir_dest", mk, NoData) >>
            /\ IF made = "ok"
               THEN /\ dirs' = [dirs EXCEPT !.root = TRUE, !.courses = TRUE]
                    /\ call' = [c0 EXCEPT !.result = "running"]
                    /\ pc' = "homepage"
               ELSE /\ dirs' = dirs
                    /\ call' = [c0 EXCEPT !.result = made]
                    /\ pc' = "idle"
    /\ UNCHANGED <<cookies, student_name, email, id, is_login, courses,
                   course_dir_map, page, index, fetches>>

\* Line 123 is not in a try: what the homepage raises leaves
\* download_courses, and the loop starts only when it has returned.
AfterHomepageSwallowed(result) == "loop"

AfterHomepage(result) == IF result = "ok" THEN "loop" ELSE "idle"

\* Line 123: the homepage, with the same path and filter.
DCHomepage ==
    /\ pc = "homepage"
    /\ \E net \in NetOutcomes :
       \E mk \in MkdirOutcomes(dirs.root) :
        LET r == download_ceiba_homepage(call.path, call.filter, mk, net)
        IN  /\ trace' = trace \o r.events
            /\ dirs' = r.dirs
            /\ index' = r.index
            /\ pc' = AfterHomepage(r.result)
            /\ call' = IF AfterHomepage(r.result) = "loop"
                       THEN [call EXCEPT !.i = 1]
                       ELSE [call EXCEPT !.result = r.result]
    /\ UNCHANGED <<cookies, student_name, email, id, is_login, courses,
                   course_dir_map, self_path, page, fetches>>

\* The test of line 128.
PassesFilterAny(course, filter) == TRUE

PassesFilter(course, filter) == ~filter.some \/ CourseId(course) \in filter.ids

\* Lines 130-136 for one course: what leaves the loop ("continue": nothing).
\* The mkdir of line 130 is outside the try; what Course.download raises
\* (line 132) is caught.
CourseOutcomeNoTry(mk, raises) ==
    IF mk # "ok" THEN mk ELSE IF raises THEN "Exception" ELSE "continue"

CourseOutcome(mk, raises) ==
    IF mk # "ok" THEN mk ELSE "continue"

\* Lines 126-137, one iteration.
DCCourse ==
    /\ pc = "loop"
    /\ call.i <= Len(courses)
    /\ LET course == courses[call.i]
           folder == FolderName(course)
           cid == CourseId(course)
       IN  IF ~PassesFilter(course, call.filter)
           THEN /\ call' = [call EXCEPT !.i = call.i + 1]
                /\ UNCHANGED <<trace, dirs, pc>>
           ELSE \E mk \in MkdirOutcomes(folder \in dirs.sub) :
                \E raises \in (IF mk = "ok" THEN BOOLEAN ELSE {FALSE}) :
                LET out == CourseOutcome(mk, raises)
                    evs == << EvN("mkdir_course", mk, <<folder>>, call.i) >> \o
                           (IF mk # "ok" THEN <<>>
                            ELSE << EvN("download", "", <<cid>>, call.i),
                                    EvN(IF raises THEN "download_raised" ELSE "download_done",
                                        "", <<cid>>, call.i) >>)
                IN  /\ trace' = trace \o evs
                    /\ dirs' = IF mk = "ok"
                               THEN [dirs EXCEPT !.sub = dirs.sub \cup {folder}]
                               ELSE dirs
                    /\ IF out = "continue"
                       THEN /\ call' = [call EXCEPT !.i = call.i + 1]
                            /\ pc' = pc
                       ELSE /\ call' = [call EXCEPT !.result = out]
                            /\ pc' = "idle"
    /\ UNCHANGED <<cookies, student_name, email, id, is_login, courses,
                   course_dir_map, self_path, page, index, fetches>>

\* Line 138: the loop is over, the call returns.
DCReturn ==
    /\ pc = "loop"
    /\ call.i > Len(courses)
    /\ call' = [call EXCEPT !.result = "ok"]
    /\ pc' = "idle"
    /\ UNCHANGED <<cookies, student_name, email, id, is_login, courses,
                   course_dir_map, self_path, page, dirs, index, trace, fetches>>

-----------------------------------------------------------------------------
(* Specifications *)

\* Ceiba.__init__ (lines 22-38), an empty destination, any courses page.
Init ==
    /\ cookies = {}
    /\ student_name = <<>>
    /\ email = <<"Not Login">>
    /\ id = None
    /\ is_login = FALSE
    /\ courses = <<>>
    /\ course_dir_map = << >>
    /\ self_path = None
    /\ page \in Pages
    /\ dirs = [root |-> FALSE, courses |-> FALSE, sub |-> {}]
    /\ index = [written |-> FALSE, rows |-> <<>>, others |-> <<>>, options |-> <<>>]
    /\ pc = "idle"
    /\ call = IdleCall
    /\ trace = <<>>
    /\ fetches = 0

\* The catalog and the homepage.
Next ==
    \/ GetCoursesList
    \/ DownloadCeibaHomepage
Spec == Init /\ [][Next]_vars

\* The catalog and download_courses.
NextDownload ==
    \/ GetCoursesList
    \/ DCValidate
    \/ DCHomepage
    \/ DCCourse
    \/ DCReturn
SpecDownload == Init /\ [][NextDownload]_vars

\* The session: login only, on one courses page.
InitLogin == Init /\ page = <<>>
NextLogin == Login
SpecLogin == InitLogin /\ [][NextLogin]_vars

-----------------------------------------------------------------------------
(* Properties of the session (SpecLogin) *)

\* The requests among the events of a call.
Requests(t) == SelectSeq(t, LAMBDA e : e.kind \in RequestKinds)

\* The response to the first form submission carries a failure marker.
FirstPostFailed(t) ==
    \E k \in 2..Len(t) :
        /\ t[k].kind = "response"
        /\ t[k - 1].kind = "POST"
        /\ \A j \in 1..(k - 2) : t[j].kind # "POST"
        /\ \E body \in PostBodies :
              /\ t[k].data = <<body>>
              /\ Contains(body, "LoginFailed") \/ Contains(body, "ChangePassword")

\* C5: a login call with no session token and without both a username and a
\* password raises InvalidLoginParameters, issues no HTTP request, and leaves
\* the cookie store, the identity fields and is_login as they were.
C5_InvalidLoginParameters ==
    [][ ( /\ call'.op = "login"
          /\ ~Truthy(call'.cookie)
          /\ ~(Truthy(call'.username) /\ Truthy(call'.password)) )
        => ( /\ call'.result = "InvalidLoginParameters"
             /\ Requests(trace') = <<>>
             /\ UNCHANGED <<cookies, student_name, email, id, is_login>> ) ]_vars

\* C5 happens: after a successful login, a call with a username and no
\* password was rejected.
C5_Witness ==
    /\ call.op = "login"
    /\ ~Truthy(call.cookie)
    /\ Truthy(call.username)
    /\ ~Truthy(call.password)
    /\ call.result = "InvalidLoginParameters"
    /\ is_login

\* C6: when the response to the first form submission contains a failure
\* marker, login raises InvalidCredentials, the form is not submitted a second
\* time, the account-info page is not fetched, and the call leaves is_login
\* as it was.
C6_FailureMarkerRejected ==
    [][ (call'.op = "login" /\ FirstPostFailed(trace'))
        => ( /\ call'.result = "InvalidCredentials"
             /\ Len(SelectSeq(trace', LAMBDA e : e.kind = "POST")) = 1
             /\ \A k \in 1..Len(trace') : trace'[k].arg # info_url
             /\ is_login' = is_login ) ]_vars

\* C6 happens: a credential login was answered with the change-password
\* prompt and was rejected, the session not being authenticated.
C6_Witness ==
    /\ call.op = "login"
    /\ FirstPostFailed(trace)
    /\ \E k \in 1..Len(trace) : trace[k].data = << <<"ChangePassword", "x">> >>
    /\ call.result = "InvalidCredentials"
    /\ ~is_login

\* C7: a login call with a session token installs it as the PHPSESSID cookie
\* and submits no credentials, also when a username and a password are given:
\* its only request is the GET of the account-info page.
C7_TokenLogin ==
    (call.op = "login" /\ Truthy(call.cookie))
    => ( /\ <<"PHPSESSID", "", call.cookie.v>> \in cookies
         /\ Len(Requests(trace)) = 1
         /\ Requests(trace)[1].kind = "GET"
         /\ Requests(trace)[1].arg = info_url )

\* C7 happens: a login with a token, a username and a password succeeded.
C7_Witness ==
    /\ call.op = "login"
    /\ Truthy(call.cookie)
    /\ Truthy(call.username)
    /\ Truthy(call.password)
    /\ call.result = "ok"

-----------------------------------------------------------------------------
(* Properties of the catalog, the homepage and download_courses *)

\* The Chinese name of a row is in the exclusion set.
ExcludedByName(row) ==
    Strip(Head(Split(Strip(row.name \o row.tail), NBSP))) \in skip_courses_list

\* The id of a row is let through by a filter.
InFilter(rowId, filter) == ~filter.some \/ rowId \in filter.ids

\* What the running / last download_courses call has done.
Returned == call.op = "download_courses" /\ pc = "idle"
Validated ==
    /\ Len(trace) >= 1
    /\ trace[1].kind = "mkdir_dest"
    /\ trace[1].arg = "ok"
HomepageWritten == \E k \in 1..Len(trace) : trace[k].kind = "write_index"
Has(kind, i) == \E k \in 1..Len(trace) : trace[k].kind = kind /\ trace[k].n = i
CourseDirFailed ==
    \E k \in 1..Len(trace) : trace[k].kind = "mkdir_course" /\ trace[k].arg # "ok"

\* Every course let through by the filter was handed to the downloader, and
\* was downloaded unless its downloader raised.
AllPassingHandled ==
    \A i \in 1..Len(courses) :
        InFilter(courses[i].semester \o courses[i].course_num, call.filter)
        => /\ Has("download", i)
           /\ Has("download_done", i) \/ Has("download_raised", i)

C2_Original ==
    (Returned /\ Validated) => call.result = "ok"

\* C2, amended: once the destination is validated, what leaves
\* download_courses is an exception of the homepage rewrite (no index.html
\* was written by the call) or the failure to create a course's directory;
\* what a per-course download raises never leaves it.
C2_OnlyHomepageOrCourseDir ==
    (Returned /\ Validated /\ call.result # "ok")
    => \/ ~HomepageWritten
       \/ /\ trace[Len(trace)].kind = "mkdir_course"
          /\ trace[Len(trace)].arg = call.result
          /\ call.result # "ok"

\* C2 happens: every downloader raised (there were at least two) and the
\* call returned normally.
C2_Witness ==
    /\ Returned
    /\ call.result = "ok"
    /\ Len(courses) >= 2
    /\ \A i \in 1..Len(courses) : Has("download_raised", i)

\* C3: download_courses with the empty string as path raises
\* InvalidFilePath at once: no request is issued, no directory is made, the
\* homepage rewriter and the per-course downloads are not started.
C3_EmptyPathFailsFast ==
    (call.op = "download_courses" /\ call.path.isStr /\ call.path.s = <<>>)
    => (call.result = "InvalidFilePath" /\ pc = "idle" /\ trace = <<>>)

\* C3 happens: with courses in the catalog, a filter given and an existing
\* destination tree, download_courses("") was rejected.
C3_Witness ==
    /\ call.op = "download_courses"
    /\ call.path.s = <<>>
    /\ call.result = "InvalidFilePath"
    /\ Len(courses) >= 1
    /\ call.filter.some
    /\ dirs.courses

\* C4: whenever the destination directory cannot be created, whatever the
\* reason, download_courses and download_ceiba_homepage raise
\* InvalidFilePath and make no network request.
C4_CreationFailureIsInvalidFilePath ==
    ( /\ call.op \in {"download_courses", "download_ceiba_homepage"}
      /\ \E k \in 1..Len(trace) : trace[k].kind = "mkdir_dest" /\ trace[k].arg # "ok" )
    => (call.result = "InvalidFilePath" /\ Requests(trace) = <<>>)

\* The non-excluded rows of a page, in row order.
RECURSIVE KeptRows(_)
KeptRows(rows) ==
    IF rows = <<>> THEN <<>>
    ELSE IF ExcludedByName(Head(rows)) THEN KeptRows(Tail(rows))
    ELSE <<Head(rows)>> \o KeptRows(Tail(rows))

\* C8: the catalog that get_courses_list produces lists the non-excluded
\* rows of the table in row order, and no two of its courses have the same
\* id.
C8_RowOrderUniqueIds ==
    (call.op = "get_courses_list" /\ call.result = "ok")
    => LET kept == KeptRows(page)
       IN  /\ Len(courses) = Len(kept)
           /\ \A k \in 1..Len(kept) :
                 /\ k <= Len(courses)
                 /\ courses[k].semester = kept[k].semester
                 /\ courses[k].course_num = kept[k].course_num
           /\ \A i, j \in 1..Len(courses) :
                 i # j => courses[i].semester \o courses[i].course_num
                          # courses[j].semester \o courses[j].course_num

\* C9: no course of the list has a Chinese name of the exclusion set, every
\* entry of the Course Directory Map is the folder of a course of the list,
\* and the downloader is only handed courses of the list, whatever the filter.
C9_ExcludedNeverListed ==
    /\ \A i \in 1..Len(courses) : courses[i].cname \notin skip_courses_list
    /\ \A key \in DOMAIN course_dir_map :
          \E i \in 1..Len(courses) :
              /\ courses[i].semester \o courses[i].course_num = key
              /\ course_dir_map[key] = FolderName(courses[i])
    /\ \A k \in 1..Len(trace) :
          trace[k].kind = "download"
          => /\ trace[k].n \in 1..Len(courses)
             /\ courses[trace[k].n].cname \notin skip_courses_list

\* C9 happens: download_courses returned, the filter held the id of an
\* excluded row, and the only courses downloaded were others.
C9_Witness ==
    /\ Returned
    /\ call.result = "ok"
    /\ call.filter.some
    /\ \E k \in 1..Len(page) :
          /\ ExcludedByName(page[k])
          /\ page[k].semester \o page[k].course_num \in call.filter.ids
    /\ \E k \in 1..Len(trace) : trace[k].kind = "download_done"

\* C10: in the homepage that download_ceiba_homepage writes, a row keeps an
\* active link exactly when it is not excluded and its id passes the filter
\* (None lets every id pass); every other row is unwrapped and muted.
C10_ActiveLinks ==
    (call.op = "download_ceiba_homepage" /\ call.result = "ok")
    => /\ Len(index.rows) = Len(page)
       /\ \A k \in 1..Len(page) :
             LET keep == /\ ~ExcludedByName(page[k])
                         /\ InFilter(page[k].semester \o page[k].course_num, call.filter)
             IN  /\ k <= Len(index.rows)
                 /\ index.rows[k].active = keep
                 /\ ~keep => index.rows[k].muted

\* C11: every anchor that is still active in the written homepage is the
\* anchor of a non-excluded row whose id passes the filter, and its href is
\* "courses/" + the folder name of that row's course + "/index.html"; every
\* other anchor of the document is unwrapped.
C11_OnlyCourseLinksActive ==
    (call.op = "download_ceiba_homepage" /\ call.result = "ok")
    => /\ \A k \in 1..Len(index.rows) :
             index.rows[k].active
             => /\ ~ExcludedByName(page[k])
                /\ InFilter(page[k].semester \o page[k].course_num, call.filter)
                /\ index.rows[k].href
                   = <<"courses/">> \o FolderName(RowCourse(page[k])) \o <<"/index.html">>
       /\ index.others = <<>>

\* C12: in download_courses the homepage is rewritten to completion, with
\* the filter of the call, before the first course directory is made and
\* the first download started; when the rewriter raises, no course
\* directory is made and no download started; and nothing that happens in
\* the course loop changes the written index.html.
C12_HomepageBeforeCourses ==
    /\ [] ( call.op = "download_courses"
            => /\ \A k \in 1..Len(trace) :
                     trace[k].kind \in {"mkdir_course", "download"}
                     => \E j \in 1..(k - 1) : trace[j].kind = "write_index"
               /\ pc = "loop"
                  => /\ index.written
                     /\ Len(index.rows) = Len(page)
                     /\ \A k \in 1..Len(index.rows) :
                           index.rows[k].active
                           => InFilter(page[k].semester \o page[k].course_num,
                                       call.filter) )
    /\ [][ /\ (pc = "homepage" /\ call'.result \notin {"running", "ok"})
              => (pc' = "idle" /\ dirs'.sub = dirs.sub)
           /\ pc = "loop" => index' = index ]_vars

\* C12 happens: download_courses wrote a homepage with an active link, then
\* a download raised and the directory of a later course could not be made.
C12_Witness ==
    /\ Returned
    /\ HomepageWritten
    /\ \E k \in 1..Len(index.rows) : index.rows[k].active
    /\ \E i \in 1..Len(courses) : Has("download_raised", i)
    /\ CourseDirFailed

\* The positions, in the list of courses, of the downloads started so far.
DownloadOrder ==
    LET d == SelectSeq(trace, LAMBDA e : e.kind = "download")
    IN  [k \in 1..Len(d) |-> d[k].n]

-----------------------------------------------------------------------------
(* Further properties of the session (SpecLogin) *)

\* A login with a username and a password whose first form submission was
\* not answered with a failure marker.
CredentialLoginPassed ==
    /\ call.op = "login"
    /\ ~Truthy(call.cookie)
    /\ Truthy(call.username)
    /\ Truthy(call.password)
    /\ ~FirstPostFailed(trace)

\* The requests of such a login are GET login page, POST, POST, GET account
\* page, the two POSTs with the credentials as payload.
FourRequests ==
    LET r == Requests(trace)
    IN  /\ Len(r) = 4
        /\ r[1].kind = "GET" /\ r[1].arg = login_url
        /\ r[2].kind = "POST" /\ r[2].data = <<call.username.v, call.password.v>>
        /\ r[3].kind = "POST" /\ r[3].data = r[2].data
        /\ r[4].kind = "GET" /\ r[4].arg = info_url

\* C14 as stated: both POSTs go to the URL the GET of the login page was
\* redirected to.
C14_Original ==
    CredentialLoginPassed
    => /\ FourRequests
       /\ trace[2].kind = "response"
       /\ Requests(trace)[2].arg = trace[2].arg
       /\ Requests(trace)[3].arg = trace[2].arg

\* C14, amended: a credential login that passes the marker check issues
\* GET login page, POST, POST, GET account page; both POSTs carry the same
\* payload; the first goes to the final URL of the GET of the login page,
\* the second to the final URL of the response to the first POST.
C14_EachPostToPreviousFinalUrl ==
    CredentialLoginPassed
    => /\ FourRequests
       /\ trace[2].kind = "response"
       /\ trace[4].kind = "response"
       /\ Requests(trace)[2].arg = trace[2].arg
       /\ Requests(trace)[3].arg = trace[4].arg

\* C14 happens: a credential login succeeded whose first POST was
\* redirected away from the URL it was sent to.
C14_Witness ==
    /\ CredentialLoginPassed
    /\ call.result = "ok"
    /\ trace[2].arg # trace[4].arg

\* The account-info page was fetched by the call.
InfoFetched(t) ==
    \E k \in 1..Len(t) : t[k].kind = "GET" /\ t[k].arg = info_url

\* Row 0 or row 5 of the page is missing, or has no first cell.
Unparseable(info) ==
    \/ Len(info) < 6
    \/ ~info[1].hasTd
    \/ ~info[6].hasTd

\* C15: whichever way the session was established, when the account-info
\* page cannot be parsed the login raises InvalidCredentials and the call
\* leaves is_login as it was.
C15_UnparseableInfoRejected ==
    [][ (call'.op = "login" /\ InfoFetched(trace') /\ Unparseable(call'.info))
        => (call'.result = "InvalidCredentials" /\ is_login' = is_login) ]_vars

\* C15 happens: a credential login passed the marker check, the account
\* page had its first row and not its sixth, and the login was rejected on a
\* session that was not authenticated, with the name already stored.
C15_Witness ==
    /\ CredentialLoginPassed
    /\ InfoFetched(trace)
    /\ Len(call.info) = 1
    /\ call.result = "InvalidCredentials"
    /\ ~is_login
    /\ student_name = <<"N">>

\* The notifications of the call before and after the GET of the account
\* page.
EmitsBeforeInfo ==
    Len(SelectSeq(trace, LAMBDA e : e.kind = "emit"))
    - (IF trace[Len(trace)].kind = "emit" THEN 1 ELSE 0)
EmitsAfterInfo ==
    IF InfoFetched(trace) /\ trace[Len(trace)].kind = "emit" THEN 1 ELSE 0

-----------------------------------------------------------------------------
(* Further properties of the catalog, the homepage and download_courses *)

\* A non-excluded row of the page whose id passes the filter and is not a
\* key of the Course Directory Map.
RowWithoutFolder(filter) ==
    \E k \in 1..Len(page) :
        /\ ~ExcludedByName(page[k])
        /\ InFilter(page[k].semester \o page[k].course_num, filter)
        /\ page[k].semester \o page[k].course_num \notin DOMAIN course_dir_map

HasKind(t, kind) == \E k \in 1..Len(t) : t[k].kind = kind

-----------------------------------------------------------------------------
(* The authentication flag (SpecLogin) *)

\* C18 as stated: is_login is True exactly when the last login call returned
\* without raising.
C18_Original ==
    /\ call.op = "none" => ~is_login
    /\ call.op = "login" => (is_login <=> call.result = "ok")

\* C18, amended: is_login is False on a fresh instance, becomes True when a
\* login call returns without raising, and is never set back: it is True
\* exactly when some login call on the instance has returned without
\* raising.
C18_SetOnceNeverReset ==
    /\ call.op = "none" => ~is_login
    /\ [][ is_login' = (is_login \/ (call'.op = "login" /\ call'.result = "ok")) ]_vars

\* C18 happens: a login had succeeded, then a login with another token was
\* rejected on an unparseable account page, and is_login is still True.
C18_Witness ==
    /\ call.op = "login"
    /\ Truthy(call.cookie)
    /\ InfoFetched(trace)
    /\ call.result = "InvalidCredentials"
    /\ is_login

-----------------------------------------------------------------------------
(* Repeated catalog fetches (SpecDownload) *)

\* C19: get_courses_list is idempotent: however often it has been called on
\* the same courses page, the list of courses is the one that one call
\* builds, and a download_courses that follows starts the downloader at most
\* once for a course id.
C19_FetchIdempotent ==
    /\ fetches >= 1
       => LET kept == KeptRows(page)
          IN  courses = [k \in 1..Len(kept) |-> RowCourse(kept[k])]
    /\ call.op = "download_courses"
       => \A j, k \in 1..Len(trace) :
             (j # k /\ trace[j].kind = "download" /\ trace[k].kind = "download")
             => trace[j].data # trace[k].data

====
